---- MODULE Spec2Model ----
(***************************************************************************)
(* Model of @wuespace/envar (mod.ts): initVariable resolves an environment *)
(* variable from the process environment, from the file named by           *)
(* `${envVariable}_FILE`, or from a default value, writes the result back   *)
(* into the process environment and validates it.                          *)
(***************************************************************************)
EXTENDS Integers, Sequences, FiniteSets, TLC

(***************************************************************************)
(* Bounds of the model.                                                    *)
(***************************************************************************)
\* number of logical tasks that may call initVariable
NumTasks == 2

Tasks == 1 .. NumTasks

(***************************************************************************)
(* JavaScript values.  A value is a record tagged with its `typeof`.       *)
(***************************************************************************)
Undefined == [type |-> "undefined"]

Null == [type |-> "null"]

Str(s) == [type |-> "string", val |-> s]

\* Symbol(description), a number, a boolean
Symbol(description) == [type |-> "symbol", description |-> description]

Num(n) == [type |-> "number", val |-> n]

Bool(b) == [type |-> "boolean", val |-> b]

\* new Error(message)
NewError(message) == [type |-> "object", name |-> "Error", message |-> message]

\* JavaScript truthiness: undefined, null, "", 0 and false are falsy
Truthy(x) ==
  CASE x.type = "string" -> x.val # ""
    [] x.type \in {"undefined", "null"} -> FALSE
    [] x.type = "number" -> x.val # 0
    [] x.type = "boolean" -> x.val
    [] OTHER -> TRUE

\* typeof x
TypeOf(x) == IF x.type = "null" THEN "object" ELSE x.type

\* a || b
Or(a, b) == IF Truthy(a) THEN a ELSE b

\* `${x}` : string conversion inside a template literal
TemplateString(x) ==
  CASE x.type = "string" -> x.val
    [] x.type = "undefined" -> "undefined"
    [] x.type = "null" -> "null"
    [] x.type = "object" -> x.name \o ": " \o x.message
    [] OTHER -> x.type

\* x?.toString()
OptionalToString(x) ==
  CASE x.type \in {"undefined", "null"} -> Undefined
    [] x.type = "string" -> x
    [] x.type = "symbol" -> Str("Symbol(" \o x.description \o ")")
    [] x.type = "number" -> Str(IF x.val = 0 THEN "0" ELSE "8080")
    [] x.type = "boolean" -> Str(IF x.val THEN "true" ELSE "false")
    [] OTHER -> Str(x.name \o ": " \o x.message)

(***************************************************************************)
(* The process environment (Deno.env): a partial map from keys to strings. *)
(* A key outside the domain is an unset variable.                          *)
(***************************************************************************)
EnvGet(e, key) == IF key \in DOMAIN e THEN Str(e[key]) ELSE Undefined

EnvSet(e, key, s) == [k \in (DOMAIN e) \cup {key} |-> IF k = key THEN s ELSE e[k]]

EnvDelete(e, key) == [k \in (DOMAIN e) \ {key} |-> e[k]]

(***************************************************************************)
(* The file system seen by Deno.readTextFile: a partial map from paths to  *)
(* contents.  Reading a path outside the domain fails.                     *)
(***************************************************************************)
\* String.prototype.trim on the contents of the model
Trim(s) == IF s = "s3cr3t\n" THEN "s3cr3t" ELSE s

\* a read that trims the contents
ReadTextFile_Trimmed(files, path) ==
  IF path \in DOMAIN files
    THEN [content |-> Str(Trim(files[path])), error |-> Null]
    ELSE [content |-> Null,
          error |-> [type |-> "object", name |-> "NotFound",
                     message |-> "No such file or directory (os error 2)"]]

ReadTextFile(files, path) ==
  IF path \in DOMAIN files
    THEN [content |-> Str(files[path]), error |-> Null]
    ELSE [content |-> Null,
          error |-> [type |-> "object", name |-> "NotFound",
                     message |-> "No such file or directory (os error 2)"]]

(***************************************************************************)
(* Validators (ZodSchemaCompat).  REQUIRED, OPTIONAL and                   *)
(* REQUIRED_NON_EMPTY are the built-in ones; the *_PASSING and *_FAILING   *)
(* ones are the validators of the test suite.                              *)
(***************************************************************************)
PARSE_ERROR == NewError("parse error")

Validators ==
  {"REQUIRED", "OPTIONAL", "REQUIRED_NON_EMPTY",
   "OPTIONAL_PASSING", "OPTIONAL_FAILING", "REQUIRED_PASSING", "REQUIRED_FAILING"}

\* the validators mod.ts exports, and those its README lists
BuiltIn == {"REQUIRED", "OPTIONAL", "REQUIRED_NON_EMPTY"}

Documented == BuiltIn \cup {"OPTIONAL_NON_EMPTY"}

IsOptional(v) == v \in {"OPTIONAL", "OPTIONAL_PASSING", "OPTIONAL_FAILING"}

\* safeParse whose REQUIRED only tests `val !== undefined`
SafeParse_Loose(v, val) ==
  CASE v = "REQUIRED" ->
         IF val # Undefined THEN Undefined
         ELSE NewError("Expected value to be a string, but got " \o TypeOf(val))
    [] v = "OPTIONAL" ->
         IF val.type = "string" \/ val = Undefined THEN Undefined
         ELSE NewError("Expected value to be a string, but got " \o TypeOf(val))
    [] v = "REQUIRED_NON_EMPTY" ->
         IF val.type = "string" /\ val.val # "" THEN Undefined
         ELSE NewError("Expected value to be a non-empty string, but got \""
                       \o TemplateString(OptionalToString(val)) \o "\"")
    [] v = "OPTIONAL_PASSING" -> Null
    [] v = "OPTIONAL_FAILING" -> PARSE_ERROR
    [] v = "REQUIRED_PASSING" -> IF val.type = "string" THEN Null ELSE PARSE_ERROR
    [] v = "REQUIRED_FAILING" -> PARSE_ERROR

\* validator.safeParse(val).error
SafeParse(v, val) ==
  CASE v = "REQUIRED" ->
         IF val.type = "string" THEN Undefined
         ELSE NewError("Expected value to be a string, but got " \o TypeOf(val))
    [] v = "OPTIONAL" ->
         IF val.type = "string" \/ val = Undefined THEN Undefined
         ELSE NewError("Expected value to be a string, but got " \o TypeOf(val))
    [] v = "REQUIRED_NON_EMPTY" ->
         IF val.type = "string" /\ val.val # "" THEN Undefined
         ELSE NewError("Expected value to be a non-empty string, but got \""
                       \o TemplateString(OptionalToString(val)) \o "\"")
    [] v = "OPTIONAL_PASSING" -> Null
    [] v = "OPTIONAL_FAILING" -> PARSE_ERROR
    [] v = "REQUIRED_PASSING" -> IF val.type = "string" THEN Null ELSE PARSE_ERROR
    [] v = "REQUIRED_FAILING" -> PARSE_ERROR

(***************************************************************************)
(* Errors thrown by initVariable.                                          *)
(***************************************************************************)
\* ConfigFileReadError with the two variable names taken in the wrong order
ConfigFileReadError_Swapped(e, envVariable, pathVariable, cause) ==
  [type |-> "object", name |-> "Error", class |-> "ConfigFileReadError",
   envVariable |-> pathVariable,
   pathVariable |-> envVariable,
   message |-> <<"Could not read file \"", TemplateString(EnvGet(e, envVariable)),
                 "\" to set ", pathVariable, " (based on ", envVariable,
                 "). Details:\n", TemplateString(cause)>>,
   cause |-> cause]

\* new ConfigFileReadError(envVariable, pathVariable, cause), built while
\* the environment is e
ConfigFileReadError(e, envVariable, pathVariable, cause) ==
  [type |-> "object", name |-> "Error", class |-> "ConfigFileReadError",
   envVariable |-> envVariable,
   pathVariable |-> pathVariable,
   message |-> <<"Could not read file \"", TemplateString(EnvGet(e, pathVariable)),
                 "\" to set ", envVariable, " (based on ", pathVariable,
                 "). Details:\n", TemplateString(cause)>>,
   cause |-> cause]

\* ConfigParseError whose message leaves out the validator's error
ConfigParseError_NoDetails(envVariable, parseError) ==
  [type |-> "object", name |-> "Error", class |-> "ConfigParseError",
   message |-> <<"Could not parse variable ", envVariable, ".">>,
   cause |-> Undefined]

\* new ConfigParseError(`Could not parse variable ${envVariable}. Details:\n${parseError}`)
ConfigParseError(envVariable, parseError) ==
  [type |-> "object", name |-> "Error", class |-> "ConfigParseError",
   message |-> <<"Could not parse variable ", envVariable, ". Details:\n",
                 TemplateString(parseError)>>,
   cause |-> Undefined]

\* the promise returned by initVariable is still pending / was fulfilled
Pending == [class |-> "pending"]

Fulfilled == [class |-> "fulfilled"]

(***************************************************************************)
(* Inputs.                                                                 *)
(***************************************************************************)
Names == {"TEST", "OTHER"}

\* `${envVariable}_FILE`
PathVariable(envVariable) == envVariable \o "_FILE"

EXISTING_FILE == "/run/secrets/test"

NONEXISTING_FILE == "/run/secrets/test.nonexistent"

DEFAULT_VALUE == "default"

\* values a variable may hold before the first call
DirectValues == {"", "value"}

\* values a *_FILE variable may hold before the first call
PointerValues == {"", EXISTING_FILE, NONEXISTING_FILE}

\* contents the existing file may have
FileContents == {"", "s3cr3t\n"}

\* the defaultValue argument
Defaults == {Undefined, Str(""), Str(DEFAULT_VALUE)}

\* a store holding, for every key of the domain of opt, the value opt[key]
\* unless opt[key] is the empty tuple
StoreOf(opt) == [k \in {j \in DOMAIN opt : opt[j] # <<>>} |-> opt[k][1]]

Some(S) == {<<>>} \cup {<<s>> : s \in S}

InitialStores ==
  {StoreOf(opt) :
     opt \in {o \in [Names \cup {PathVariable(n) : n \in Names}
                       -> Some(DirectValues \cup PointerValues)] :
                \A n \in Names : /\ o[n] \in Some(DirectValues)
                                 /\ o[PathVariable(n)] \in Some(PointerValues)}}

(***************************************************************************)
(* State.                                                                  *)
(***************************************************************************)
VARIABLES
  env,              \* Deno.env
  fs,               \* the file system
  pc,               \* per task: where its initVariable call stands
  args,             \* per task: the arguments of its call
  configValuePath,  \* per task: setFromFile's configValuePath
  source,           \* per task: initVariable's `source`
  parseLog,         \* per task: the values handed to validator.safeParse
  reads,            \* per task: number of Deno.readTextFile calls started
  result,           \* per task: how the promise of the call settled
  env0              \* per task: Deno.env when the call started

vars == <<env, fs, pc, args, configValuePath, source, parseLog, reads, result, env0>>

NoArgs == [envVariable |-> "", validator |-> "OPTIONAL", defaultValue |-> Undefined]

Init ==
  /\ env \in InitialStores
  /\ fs \in [{EXISTING_FILE} -> FileContents]
  /\ pc = [t \in Tasks |-> "idle"]
  /\ args = [t \in Tasks |-> NoArgs]
  /\ configValuePath = [t \in Tasks |-> Undefined]
  /\ source = [t \in Tasks |-> ""]
  /\ parseLog = [t \in Tasks |-> <<>>]
  /\ reads = [t \in Tasks |-> 0]
  /\ result = [t \in Tasks |-> Pending]
  /\ env0 = [t \in Tasks |-> env]

(***************************************************************************)
(* setFromDefault(envVariable, defaultValue): the store it leaves.         *)
(***************************************************************************)
\* setFromDefault that never writes the default
setFromDefault_NoWrite(e, envVariable, defaultValue) ==
  IF defaultValue = Undefined THEN EnvDelete(e, envVariable) ELSE e

\* setFromDefault that never deletes the variable
setFromDefault_NoDelete(e, envVariable, defaultValue) ==
  IF defaultValue = Undefined THEN e ELSE EnvSet(e, envVariable, defaultValue.val)

\* setFromDefault with the name of the test suite's variable written in
setFromDefault_FixedName(e, envVariable, defaultValue) ==
  IF defaultValue = Undefined
    THEN EnvDelete(e, "TEST")
    ELSE EnvSet(e, "TEST", defaultValue.val)

setFromDefault(e, envVariable, defaultValue) ==
  IF defaultValue = Undefined
    THEN EnvDelete(e, envVariable)
    ELSE EnvSet(e, envVariable, defaultValue.val)

(***************************************************************************)
(* setFromFile(envVariable) up to its await: the configValuePath it reads  *)
(* from the store and whether it starts Deno.readTextFile.                 *)
(***************************************************************************)
setFromFileStart(e, envVariable) ==
  LET path == EnvGet(e, envVariable \o "_FILE")
  IN [configValuePath |-> path, read |-> Truthy(path)]

(***************************************************************************)
(* setFromFile(envVariable) after its await, r being the settled read:     *)
(* the store it leaves and the error it throws (Null if it returns).       *)
(***************************************************************************)
\* setFromFile that swallows the read error and returns
setFromFileEnd_Swallow(e, envVariable, r) ==
  IF Truthy(r.error)
    THEN [env |-> e, thrown |-> Null]
    ELSE [env |-> EnvSet(e, envVariable, r.content.val), thrown |-> Null]

\* setFromFile that stores the (missing) contents before it looks at the error
setFromFileEnd_SetFirst(e, envVariable, r) ==
  IF Truthy(r.error)
    THEN [env |-> EnvSet(e, envVariable, TemplateString(r.content)),
          thrown |-> ConfigFileReadError(e, envVariable,
                                         PathVariable(envVariable), r.error)]
    ELSE [env |-> EnvSet(e, envVariable, r.content.val), thrown |-> Null]

\* setFromFile that tests the variable again before it stores the contents
setFromFileEnd_TestAgain(e, envVariable, r) ==
  IF Truthy(r.error)
    THEN [env |-> e,
          thrown |-> ConfigFileReadError(e, envVariable,
                                         PathVariable(envVariable), r.error)]
    ELSE [env |-> IF Truthy(EnvGet(e, envVariable))
                    THEN e
                    ELSE EnvSet(e, envVariable, r.content.val),
          thrown |-> Null]

setFromFileEnd(e, envVariable, r) ==
  IF Truthy(r.error)
    THEN [env |-> e,
          thrown |-> ConfigFileReadError(e, envVariable,
                                         PathVariable(envVariable), r.error)]
    ELSE [env |-> EnvSet(e, envVariable, r.content.val), thrown |-> Null]

(***************************************************************************)
(* The conditions and expressions of initVariable.                         *)
(***************************************************************************)
\* the file is consulted only if the variable is unset: `=== undefined`
NeedsFile_OnlyIfUnset(e, envVariable) == EnvGet(e, envVariable) = Undefined

\* the file is consulted whatever the variable holds
NeedsFile_Always(e, envVariable) == TRUE

\* `!Deno.env.get(envVariable)` before setFromFile
NeedsFile(e, envVariable) == ~Truthy(EnvGet(e, envVariable))

\* the default is used only if the variable is unset: `=== undefined`
NeedsDefault_OnlyIfUnset(e, envVariable) == EnvGet(e, envVariable) = Undefined

\* `!Deno.env.get(envVariable)` before setFromDefault
NeedsDefault(e, envVariable) == ~Truthy(EnvGet(e, envVariable))

\* `defaultValue || Deno.env.get(envVariable)`
Candidate_DefaultFirst(e, envVariable, defaultValue) ==
  Or(defaultValue, EnvGet(e, envVariable))

\* `Deno.env.get(envVariable) || defaultValue`, the argument of safeParse
Candidate(e, envVariable, defaultValue) ==
  Or(EnvGet(e, envVariable), defaultValue)

\* a parse error is reported with the error class for unset variables
Outcome_EnvNotSet(envVariable, validator, parseError) ==
  IF Truthy(parseError)
    THEN [type |-> "object", name |-> "Error", class |-> "EnvNotSetError",
          envVariable |-> envVariable, cause |-> parseError]
    ELSE Fulfilled

\* a parse error is ignored for a validator that is optional
Outcome_OptionalIgnored(envVariable, validator, parseError) ==
  IF Truthy(parseError) /\ ~IsOptional(validator)
    THEN ConfigParseError(envVariable, parseError)
    ELSE Fulfilled

\* how the call settles once safeParse returned parseError
Outcome(envVariable, validator, parseError) ==
  IF Truthy(parseError)
    THEN ConfigParseError(envVariable, parseError)
    ELSE Fulfilled

\* the `source` assigned before setFromDefault
DefaultSource(defaultValue) ==
  "Default value " \o
  (IF Truthy(defaultValue) THEN "\"" \o defaultValue.val \o "\"" ELSE "[none]")

(***************************************************************************)
(* initVariable from its second check of the variable to its end, started  *)
(* with the store e: the store it leaves, the value it validates, the      *)
(* source it logs and the way its promise settles.                         *)
(***************************************************************************)
Validate(e, a, src) ==
  LET useDefault == NeedsDefault(e, a.envVariable)
      e1 == IF useDefault
              THEN setFromDefault(e, a.envVariable, a.defaultValue)
              ELSE e
      candidate == Candidate(e1, a.envVariable, a.defaultValue)
      parseError == SafeParse(a.validator, candidate)
  IN [env |-> e1,
      candidate |-> candidate,
      source |-> IF useDefault THEN DefaultSource(a.defaultValue) ELSE src,
      result |-> Outcome(a.envVariable, a.validator, parseError)]

\* `await initVariable(envVariable, validator, defaultValue)` with nothing
\* else running meanwhile, started with the store e and the files `files`:
\* the store it leaves and the way its promise settles
InitVariable(e, files, a) ==
  IF NeedsFile(e, a.envVariable)
    THEN LET s == setFromFileStart(e, a.envVariable)
             f == IF s.read
                    THEN setFromFileEnd(e, a.envVariable,
                                        ReadTextFile(files, s.configValuePath.val))
                    ELSE [env |-> e, thrown |-> Null]
             r == Validate(f.env, a, "File from " \o a.envVariable \o "_FILE")
         IN IF Truthy(f.thrown)
              THEN [env |-> f.env, result |-> f.thrown]
              ELSE [env |-> r.env, result |-> r.result]
    ELSE LET r == Validate(e, a, "Environment variable " \o a.envVariable)
         IN [env |-> r.env, result |-> r.result]

\* the call of task t runs from its second check of the variable to its end
Finish(t, e, a, src) ==
  LET r == Validate(e, a, src)
  IN /\ env' = r.env
     /\ parseLog' = [parseLog EXCEPT ![t] = Append(@, r.candidate)]
     /\ source' = [source EXCEPT ![t] = r.source]
     /\ result' = [result EXCEPT ![t] = r.result]
     /\ pc' = [pc EXCEPT ![t] = "done"]

(***************************************************************************)
(* Task t calls initVariable(envVariable, validator, defaultValue).  The   *)
(* call runs up to its first await: to the end if the variable holds a     *)
(* non-empty value, and otherwise into setFromFile, which either returns   *)
(* at once (no file to read), leaving the call at                          *)
(* `await setFromFile(envVariable)`, or starts Deno.readTextFile.          *)
(***************************************************************************)
Call(t, envVariable, validator, defaultValue) ==
  LET a == [envVariable |-> envVariable, validator |-> validator,
            defaultValue |-> defaultValue]
      f == setFromFileStart(env, envVariable)
  IN /\ pc[t] \in {"idle", "done"}
     /\ args' = [args EXCEPT ![t] = a]
     /\ env0' = [env0 EXCEPT ![t] = env]
     /\ fs' = fs
     /\ IF NeedsFile(env, envVariable)
          THEN /\ env' = env
               /\ parseLog' = [parseLog EXCEPT ![t] = <<>>]
               /\ source' = [source EXCEPT ![t] = "File from " \o envVariable \o "_FILE"]
               /\ result' = [result EXCEPT ![t] = Pending]
               /\ configValuePath' = [configValuePath EXCEPT ![t] = f.configValuePath]
               /\ pc' = [pc EXCEPT ![t] = IF f.read THEN "reading" ELSE "awaitFile"]
               /\ reads' = [reads EXCEPT ![t] = IF f.read THEN 1 ELSE 0]
          ELSE /\ LET r == Validate(env, a, "Environment variable " \o envVariable)
                  IN /\ env' = r.env
                     /\ parseLog' = [parseLog EXCEPT ![t] = <<r.candidate>>]
                     /\ source' = [source EXCEPT ![t] = r.source]
                     /\ result' = [result EXCEPT ![t] = r.result]
               /\ pc' = [pc EXCEPT ![t] = "done"]
               /\ configValuePath' = [configValuePath EXCEPT ![t] = Undefined]
               /\ reads' = [reads EXCEPT ![t] = 0]

(***************************************************************************)
(* Deno.readTextFile settles and setFromFile runs to its end: it throws a  *)
(* ConfigFileReadError, which rejects the call, or stores the contents and *)
(* returns, leaving the call at `await setFromFile(envVariable)`.          *)
(***************************************************************************)
ReadDone(t) ==
  LET f == setFromFileEnd(env, args[t].envVariable,
                          ReadTextFile(fs, configValuePath[t].val))
  IN /\ pc[t] = "reading"
     /\ env' = f.env
     /\ IF Truthy(f.thrown)
          THEN /\ result' = [result EXCEPT ![t] = f.thrown]
               /\ pc' = [pc EXCEPT ![t] = "done"]
          ELSE /\ result' = result
               /\ pc' = [pc EXCEPT ![t] = "awaitFile"]
     /\ UNCHANGED <<fs, args, configValuePath, source, parseLog, reads, env0>>

(***************************************************************************)
(* `await setFromFile(envVariable)` resumes: the call runs to its end.     *)
(***************************************************************************)
Resume(t) ==
  /\ pc[t] = "awaitFile"
  /\ Finish(t, env, args[t], source[t])
  /\ UNCHANGED <<fs, args, configValuePath, reads, env0>>

(***************************************************************************)
(* Sequential use: one task calls initVariable and awaits each call before *)
(* the next, as in the README and the test suite.                          *)
(***************************************************************************)
Next ==
  \/ \E n \in Names, v \in Validators, d \in Defaults : Call(1, n, v, d)
  \/ ReadDone(1)
  \/ Resume(1)

Spec == Init /\ [][Next]_vars

(***************************************************************************)
(* A repeated call: task 1 calls initVariable once and, after that call    *)
(* has returned, task 2 calls it with the same arguments.                  *)
(***************************************************************************)
NextTwice ==
  \/ /\ pc[1] = "idle"
     /\ \E n \in Names, v \in Validators, d \in Defaults : Call(1, n, v, d)
  \/ ReadDone(1)
  \/ Resume(1)
  \/ /\ pc[1] = "done"
     /\ pc[2] = "idle"
     /\ Call(2, args[1].envVariable, args[1].validator, args[1].defaultValue)
  \/ ReadDone(2)
  \/ Resume(2)

SpecTwice == Init /\ [][NextTwice]_vars

(***************************************************************************)
(* Concurrent use: task 1 calls initVariable and task 2 calls it at any    *)
(* later moment, while the call of task 1 is suspended or after it has     *)
(* returned.  Each task calls once.  TEST_FILE is both a name of its own   *)
(* and the pointer variable of TEST.                                       *)
(***************************************************************************)
ConcNames == {"TEST", "TEST_FILE", "OTHER"}

ConcValidators == {"REQUIRED", "OPTIONAL"}

ConcDefaults == {Undefined, Str(DEFAULT_VALUE), Str(EXISTING_FILE)}

ConcStores ==
  {StoreOf(opt) :
     opt \in {o \in [{"TEST", "TEST_FILE", "OTHER", "OTHER_FILE"}
                       -> Some(DirectValues \cup PointerValues)] :
                /\ o["TEST"] \in Some(DirectValues)
                /\ o["TEST_FILE"] \in Some({EXISTING_FILE, NONEXISTING_FILE})
                /\ o["OTHER"] \in Some({"value"})
                /\ o["OTHER_FILE"] \in Some({EXISTING_FILE})}}

InitConc ==
  /\ env \in ConcStores
  /\ fs \in [{EXISTING_FILE} -> FileContents]
  /\ pc = [t \in Tasks |-> "idle"]
  /\ args = [t \in Tasks |-> NoArgs]
  /\ configValuePath = [t \in Tasks |-> Undefined]
  /\ source = [t \in Tasks |-> ""]
  /\ parseLog = [t \in Tasks |-> <<>>]
  /\ reads = [t \in Tasks |-> 0]
  /\ result = [t \in Tasks |-> Pending]
  /\ env0 = [t \in Tasks |-> env]

NextConc ==
  \/ /\ pc[1] = "idle"
     /\ \E n \in ConcNames, v \in ConcValidators, d \in ConcDefaults :
          Call(1, n, v, d)
  \/ /\ pc[1] # "idle"
     /\ pc[2] = "idle"
     /\ \E n \in ConcNames, v \in ConcValidators, d \in ConcDefaults :
          Call(2, n, v, d)
  \/ \E t \in Tasks : ReadDone(t)
  \/ \E t \in Tasks : Resume(t)

SpecConc == InitConc /\ [][NextConc]_vars

(***************************************************************************)
(* Sequential use over time: one task calls initVariable for the variable  *)
(* of the test suite again and again, and between two calls the file may   *)
(* be rewritten and TEST_FILE set to another path or deleted.              *)
(***************************************************************************)
ROTATED == "r0t4t3d"

LaterStores ==
  {StoreOf(opt) :
     opt \in {o \in [{"TEST", "TEST_FILE"} -> Some(DirectValues \cup PointerValues)] :
                /\ o["TEST"] \in Some(DirectValues)
                /\ o["TEST_FILE"] \in Some(PointerValues)}}

InitLater ==
  /\ env \in LaterStores
  /\ fs \in [{EXISTING_FILE} -> FileContents]
  /\ pc = [t \in Tasks |-> "idle"]
  /\ args = [t \in Tasks |-> NoArgs]
  /\ configValuePath = [t \in Tasks |-> Undefined]
  /\ source = [t \in Tasks |-> ""]
  /\ parseLog = [t \in Tasks |-> <<>>]
  /\ reads = [t \in Tasks |-> 0]
  /\ result = [t \in Tasks |-> Pending]
  /\ env0 = [t \in Tasks |-> env]

\* the file at path is rewritten with content
WriteTextFile(path, content) ==
  /\ pc[1] \in {"idle", "done"}
  /\ fs[path] # content
  /\ fs' = [fs EXCEPT ![path] = content]
  /\ UNCHANGED <<env, pc, args, configValuePath, source, parseLog, reads,
                 result, env0>>

\* Deno.env.set(`${envVariable}_FILE`, path) between two calls
SetPointer(envVariable, path) ==
  /\ pc[1] \in {"idle", "done"}
  /\ EnvGet(env, PathVariable(envVariable)) # Str(path)
  /\ env' = EnvSet(env, PathVariable(envVariable), path)
  /\ UNCHANGED <<fs, pc, args, configValuePath, source, parseLog, reads,
                 result, env0>>

\* Deno.env.delete(`${envVariable}_FILE`) between two calls
DeletePointer(envVariable) ==
  /\ pc[1] \in {"idle", "done"}
  /\ PathVariable(envVariable) \in DOMAIN env
  /\ env' = EnvDelete(env, PathVariable(envVariable))
  /\ UNCHANGED <<fs, pc, args, configValuePath, source, parseLog, reads,
                 result, env0>>

NextLater ==
  \/ \E v \in Validators, d \in Defaults : Call(1, "TEST", v, d)
  \/ ReadDone(1)
  \/ Resume(1)
  \/ \E c \in FileContents \cup {ROTATED} : WriteTextFile(EXISTING_FILE, c)
  \/ \E p \in PointerValues : SetPointer("TEST", p)
  \/ DeletePointer("TEST")

SpecLater == InitLater /\ [][NextLater]_vars

(***************************************************************************)
(* A racing writer: task 1 calls initVariable and, while that call is      *)
(* suspended in Deno.readTextFile, task 2 stores a value with              *)
(* Deno.env.set.                                                           *)
(***************************************************************************)
Store(t, key, s) ==
  /\ pc[t] = "idle"
  /\ pc[1] = "reading"
  /\ env' = EnvSet(env, key, s)
  /\ pc' = [pc EXCEPT ![t] = "stored"]
  /\ args' = [args EXCEPT ![t] = [envVariable |-> key, validator |-> "OPTIONAL",
                                  defaultValue |-> Str(s)]]
  /\ env0' = [env0 EXCEPT ![t] = env]
  /\ UNCHANGED <<fs, configValuePath, source, parseLog, reads, result>>

NextRace ==
  \/ /\ pc[1] = "idle"
     /\ \E n \in ConcNames, v \in ConcValidators, d \in ConcDefaults :
          Call(1, n, v, d)
  \/ ReadDone(1)
  \/ Resume(1)
  \/ \E k \in ConcNames, s \in {"value", DEFAULT_VALUE} : Store(2, k, s)

SpecRace == InitConc /\ [][NextRace]_vars

(***************************************************************************)
(* Direct use of the validators, as in the test suite: task t imports the  *)
(* validator named v from mod.ts (or takes one of the test suite's own)    *)
(* and calls its isOptional() and its safeParse(val).  Importing a name    *)
(* mod.ts does not export fails.                                           *)
(***************************************************************************)
NOT_A_STRING == Symbol("not a string")

ParseInputs ==
  {Undefined, Null, NOT_A_STRING, Num(0), Num(8080), Bool(TRUE), Bool(FALSE)}
    \cup {Str(x) : x \in {"", "0", "value", "xxx", "s3cr3t\n", DEFAULT_VALUE,
                         EXISTING_FILE, NONEXISTING_FILE}}

Parse(t, v, val) ==
  /\ pc[t] \in {"idle", "parsed"}
  /\ pc' = [pc EXCEPT ![t] = "parsed"]
  /\ args' = [args EXCEPT ![t] = [envVariable |-> "", validator |-> v,
                                  defaultValue |-> Undefined]]
  /\ parseLog' = [parseLog EXCEPT ![t] = IF v \in Validators THEN <<val>> ELSE <<>>]
  /\ result' = [result EXCEPT ![t] =
       IF v \in Validators
         THEN [class |-> "safeParse", error |-> SafeParse(v, val),
               isOptional |-> IsOptional(v)]
         ELSE [class |-> "SyntaxError",
               message |-> "The requested module './mod.ts' does not provide an export named '"
                           \o v \o "'"]]
  /\ UNCHANGED <<env, fs, configValuePath, source, reads, env0>>

InitParse ==
  /\ env = <<>>
  /\ fs = [p \in {EXISTING_FILE} |-> ""]
  /\ pc = [t \in Tasks |-> "idle"]
  /\ args = [t \in Tasks |-> NoArgs]
  /\ configValuePath = [t \in Tasks |-> Undefined]
  /\ source = [t \in Tasks |-> ""]
  /\ parseLog = [t \in Tasks |-> <<>>]
  /\ reads = [t \in Tasks |-> 0]
  /\ result = [t \in Tasks |-> Pending]
  /\ env0 = [t \in Tasks |-> env]

NextParse ==
  \E v \in Validators \cup Documented, val \in ParseInputs : Parse(1, v, val)

SpecParse == InitParse /\ [][NextParse]_vars

\* the same, every started call being resumed and every started read settling
FairSpec == Spec /\ WF_vars(ReadDone(1)) /\ WF_vars(Resume(1))

(***************************************************************************)
(* Vocabulary of the properties.  A call of task t has returned when       *)
(* pc[t] = "done"; env0[t] is the store it started with.                   *)
(***************************************************************************)
Returned(t) == pc[t] = "done"

Succeeded(t) == Returned(t) /\ result[t] = Fulfilled

FailedWith(t, class) == Returned(t) /\ result[t].class = class

\* the direct value and the pointer the call of task t started with
Direct0(t) == EnvGet(env0[t], args[t].envVariable)

Pointer0(t) == EnvGet(env0[t], args[t].envVariable \o "_FILE")

\* the call of task t started without a (non-empty) direct value
NoDirect0(t) == ~Truthy(Direct0(t))

\* the call of task t started without a (non-empty) pointer
NoPointer0(t) == ~Truthy(Pointer0(t))

\* the pointer the call started with names a file that can / cannot be read
Readable0(t) == Truthy(Pointer0(t)) /\ Pointer0(t).val \in DOMAIN fs

Unreadable0(t) == Truthy(Pointer0(t)) /\ Pointer0(t).val \notin DOMAIN fs

\* what the store holds for the variable of task t now
Current(t) == EnvGet(env, args[t].envVariable)

(***************************************************************************)
(* C1.  A non-empty direct value wins: when the variable holds a non-empty *)
(* string at the call, the call leaves it as it is and hands exactly that  *)
(* value to the validator, whatever `${name}_FILE` holds and whether or    *)
(* not a default is given.                                                 *)
(***************************************************************************)
C1_DirectValueWins ==
  \A t \in Tasks :
    Returned(t) /\ Truthy(Direct0(t)) =>
      /\ Current(t) = Direct0(t)
      /\ parseLog[t] = <<Direct0(t)>>

\* a call with a direct value, an unreadable pointer and a default returned
C1_Witness ==
  /\ Returned(1)
  /\ Direct0(1) = Str("value")
  /\ Unreadable0(1)
  /\ args[1].defaultValue = Str(DEFAULT_VALUE)

\* the same with a readable pointer
C1_WitnessReadable ==
  /\ Returned(1)
  /\ Direct0(1) = Str("value")
  /\ Readable0(1)
  /\ fs[Pointer0(1).val] = "s3cr3t\n"

C3_DefaultUsed ==
  \A t \in Tasks :
    Returned(t) /\ NoDirect0(t) /\ NoPointer0(t)
                /\ args[t].defaultValue # Undefined =>
      /\ Current(t) = args[t].defaultValue
      /\ parseLog[t] = <<args[t].defaultValue>>

\* a call that succeeded with the default
C3_Witness ==
  /\ Succeeded(1)
  /\ args[1].envVariable \notin DOMAIN env0[1]
  /\ (args[1].envVariable \o "_FILE") \notin DOMAIN env0[1]
  /\ args[1].defaultValue = Str(DEFAULT_VALUE)
  /\ Current(1) = Str(DEFAULT_VALUE)

(***************************************************************************)
(* C4.  After a successful call the store holds for the name the value     *)
(* the validator accepted, and holds nothing if that value was undefined.  *)
(***************************************************************************)
C4_StoreHoldsAcceptedValue ==
  \A t \in Tasks :
    Succeeded(t) =>
      /\ Len(parseLog[t]) = 1
      /\ Current(t) = parseLog[t][1]

\* successful calls that accepted a file's contents / accepted undefined
C4_Witness ==
  /\ Succeeded(1)
  /\ NoDirect0(1)
  /\ parseLog[1] = <<Str("s3cr3t\n")>>

C4_WitnessUndefined == Succeeded(1) /\ parseLog[1] = <<Undefined>>

(***************************************************************************)
(* C5.  With no direct value, no pointer and no default, and a validator   *)
(* that accepts undefined, the call succeeds and the store has no entry    *)
(* for the name afterwards.                                                *)
(***************************************************************************)
C5_OptionalAbsent ==
  \A t \in Tasks :
    Returned(t) /\ NoDirect0(t) /\ NoPointer0(t)
                /\ args[t].defaultValue = Undefined
                /\ ~Truthy(SafeParse(args[t].validator, Undefined)) =>
      /\ result[t] = Fulfilled
      /\ args[t].envVariable \notin DOMAIN env

\* such a call returned; the variable held the empty string before
C5_Witness ==
  /\ Returned(1)
  /\ Direct0(1) = Str("")
  /\ NoPointer0(1)
  /\ args[1].defaultValue = Undefined
  /\ args[1].validator = "OPTIONAL_PASSING"
  /\ Current(1) = Undefined

(***************************************************************************)
(* C6.  With no direct value, no pointer and no default, and a validator   *)
(* that rejects undefined, the call rejects with a ConfigParseError.       *)
(***************************************************************************)
C6_RequiredAbsent ==
  \A t \in Tasks :
    Returned(t) /\ NoDirect0(t) /\ NoPointer0(t)
                /\ args[t].defaultValue = Undefined
                /\ Truthy(SafeParse(args[t].validator, Undefined)) =>
      result[t].class = "ConfigParseError"

\* such calls returned, for a required validator and for one that is
\* optional and rejects everything
C6_Witness ==
  /\ FailedWith(1, "ConfigParseError")
  /\ args[1].envVariable \notin DOMAIN env0[1]
  /\ NoPointer0(1)
  /\ args[1].defaultValue = Undefined
  /\ args[1].validator = "REQUIRED_PASSING"

C6_WitnessOptional ==
  /\ FailedWith(1, "ConfigParseError")
  /\ NoDirect0(1)
  /\ NoPointer0(1)
  /\ args[1].defaultValue = Undefined
  /\ args[1].validator = "OPTIONAL_FAILING"

(***************************************************************************)
(* C7.  As stated: whenever `${name}_FILE` holds a path that cannot be     *)
(* read, the call rejects with a ConfigFileReadError.                      *)
(***************************************************************************)
C7_UnreadableAlwaysFails ==
  \A t \in Tasks :
    Returned(t) /\ Unreadable0(t) => result[t].class = "ConfigFileReadError"

(***************************************************************************)
(* C7, amended.  Whenever the name has no non-empty direct value and       *)
(* `${name}_FILE` holds a non-empty path that cannot be read, the call     *)
(* rejects with a ConfigFileReadError: it does not reach the default and   *)
(* does not succeed.                                                       *)
(***************************************************************************)
C7_UnreadableFailsWithoutDirect ==
  \A t \in Tasks :
    NoDirect0(t) /\ Unreadable0(t) =>
      /\ pc[t] \in {"reading", "done"}
      /\ Returned(t) => /\ result[t].class = "ConfigFileReadError"
                        /\ Current(t) = Direct0(t)

\* such a call returned, a default being given
C7_Witness ==
  /\ FailedWith(1, "ConfigFileReadError")
  /\ NoDirect0(1)
  /\ Pointer0(1) = Str(NONEXISTING_FILE)
  /\ args[1].defaultValue = Str(DEFAULT_VALUE)

(***************************************************************************)
(* C8.  When a call rejects with a ConfigFileReadError the store is as it  *)
(* was before the call (the default was not applied) and the validator     *)
(* was not invoked.                                                        *)
(***************************************************************************)
C8_FileReadFailureFrame ==
  \A t \in Tasks :
    FailedWith(t, "ConfigFileReadError") =>
      /\ env = env0[t]
      /\ parseLog[t] = <<>>

\* calls that failed so, the variable being unset / empty before and after
C8_Witness ==
  /\ FailedWith(1, "ConfigFileReadError")
  /\ args[1].defaultValue = Str(DEFAULT_VALUE)
  /\ args[1].envVariable \notin DOMAIN env0[1]
  /\ args[1].envVariable \notin DOMAIN env

C8_WitnessEmpty ==
  /\ FailedWith(1, "ConfigFileReadError")
  /\ Direct0(1) = Str("")
  /\ Current(1) = Str("")

(***************************************************************************)
(* C9.  As stated: every ConfigParseError of initVariable names the        *)
(* variable and has the validator's error as its cause.                    *)
(***************************************************************************)
C9_ParseErrorHasCause ==
  \A t \in Tasks :
    FailedWith(t, "ConfigParseError") =>
      /\ \E i \in DOMAIN result[t].message :
           result[t].message[i] = args[t].envVariable
      /\ result[t].cause = SafeParse(args[t].validator, parseLog[t][1])

(***************************************************************************)
(* C9, amended.  Every ConfigParseError of initVariable names the variable *)
(* and gives the text of the validator's (non-null) error in its message;  *)
(* it has no cause.                                                        *)
(***************************************************************************)
C9_ParseErrorMessage ==
  \A t \in Tasks :
    FailedWith(t, "ConfigParseError") =>
      LET parseError == SafeParse(args[t].validator, parseLog[t][1])
      IN /\ Truthy(parseError)
         /\ \E i \in DOMAIN result[t].message :
              result[t].message[i] = args[t].envVariable
         /\ \E i \in DOMAIN result[t].message :
              result[t].message[i] = parseError.name \o ": " \o parseError.message
         /\ result[t].cause = Undefined

\* a call rejected a file's contents with the error of the test suite
C9_Witness ==
  /\ FailedWith(1, "ConfigParseError")
  /\ args[1].validator = "REQUIRED_FAILING"
  /\ parseLog[1] = <<Str("s3cr3t\n")>>

(***************************************************************************)
(* C10.  Every ConfigFileReadError of initVariable carries the variable    *)
(* name, the pointer variable's name `${name}_FILE`, and the I/O error of  *)
(* the read as its cause.                                                  *)
(***************************************************************************)
C10_FileReadErrorFields ==
  \A t \in Tasks :
    FailedWith(t, "ConfigFileReadError") =>
      /\ result[t].envVariable = args[t].envVariable
      /\ result[t].pathVariable = args[t].envVariable \o "_FILE"
      /\ result[t].cause.name = "NotFound"
      /\ result[t].cause = ReadTextFile(fs, Pointer0(t).val).error

\* a call for OTHER failed reading the file OTHER_FILE names
C10_Witness ==
  /\ FailedWith(1, "ConfigFileReadError")
  /\ args[1].envVariable = "OTHER"
  /\ result[1].pathVariable = "OTHER_FILE"
  /\ Pointer0(1) = Str(NONEXISTING_FILE)

(***************************************************************************)
(* C11.  Whatever the source of the value, it is handed to the validator,  *)
(* and the call rejects with a ConfigParseError exactly when safeParse     *)
(* returns a non-null error: isOptional() has no say in the outcome.       *)
(***************************************************************************)
C11_OutcomeFollowsSafeParse ==
  \A t \in Tasks :
    Returned(t) /\ result[t].class # "ConfigFileReadError" =>
      /\ Len(parseLog[t]) = 1
      /\ (result[t].class = "ConfigParseError")
           <=> Truthy(SafeParse(args[t].validator, parseLog[t][1]))
      /\ (result[t] = Fulfilled)
           <=> ~Truthy(SafeParse(args[t].validator, parseLog[t][1]))

\* an optional validator rejected a value taken from the default
C11_Witness ==
  /\ FailedWith(1, "ConfigParseError")
  /\ args[1].validator = "OPTIONAL_FAILING"
  /\ IsOptional(args[1].validator)
  /\ NoDirect0(1)
  /\ NoPointer0(1)
  /\ parseLog[1] = <<Str(DEFAULT_VALUE)>>

\* the same for a direct value and for a value taken from the file
C11_WitnessDirect ==
  /\ FailedWith(1, "ConfigParseError")
  /\ args[1].validator = "OPTIONAL_FAILING"
  /\ parseLog[1] = <<Str("value")>>

C11_WitnessFile ==
  /\ FailedWith(1, "ConfigParseError")
  /\ args[1].validator = "OPTIONAL_FAILING"
  /\ NoDirect0(1)
  /\ reads[1] = 1
  /\ parseLog[1] = <<Str("s3cr3t\n")>>

C18_ExistingValueUsed ==
  \A t \in Tasks :
    Returned(t) /\ args[t].envVariable \in DOMAIN env0[t] =>
      /\ parseLog[t] = <<Direct0(t)>>
      /\ Current(t) = Direct0(t)

(***************************************************************************)
(* C20.  A call ends in exactly one of success, ConfigFileReadError and    *)
(* ConfigParseError, never in an EnvNotSetError; it reads the file at most *)
(* once, only without a direct value and before it validates; the          *)
(* validator is invoked once in a call that does not end in a              *)
(* ConfigFileReadError and never in one that does; and a call that is      *)
(* suspended returns once its read has settled.                            *)
(***************************************************************************)
C20_Terminal ==
  \A t \in Tasks :
    /\ pc[t] = "reading" => reads[t] = 1 /\ parseLog[t] = <<>> /\ result[t] = Pending
    /\ pc[t] = "awaitFile" => reads[t] \in {0, 1} /\ parseLog[t] = <<>>
                                                  /\ result[t] = Pending
    /\ Returned(t) =>
         /\ result[t].class \in {"fulfilled", "ConfigFileReadError", "ConfigParseError"}
         /\ reads[t] \in {0, 1}
         /\ Truthy(Direct0(t)) => reads[t] = 0
         /\ result[t].class = "ConfigFileReadError" =>
              reads[t] = 1 /\ parseLog[t] = <<>>
         /\ result[t].class # "ConfigFileReadError" => Len(parseLog[t]) = 1

C20_OneOutcome ==
  /\ []C20_Terminal
  /\ \A t \in Tasks : (pc[t] \in {"reading", "awaitFile"}) ~> Returned(t)

\* a call read the file and then failed validation
C20_Witness ==
  /\ FailedWith(1, "ConfigParseError")
  /\ reads[1] = 1
  /\ Len(parseLog[1]) = 1
  /\ args[1].validator = "REQUIRED_NON_EMPTY"
  /\ Current(1) = Undefined

(***************************************************************************)
(* C12.  Idempotence: a second call with the same arguments, made on the   *)
(* store the first call left, settles as the first did and leaves the      *)
(* store as the first left it; and what a call leaves and how it settles   *)
(* is a function of the store it starts with, the files and its arguments. *)
(***************************************************************************)
C12_Idempotent ==
  /\ Returned(1) /\ Returned(2) =>
       /\ args[2] = args[1]
       /\ result[2] = result[1]
       /\ env = env0[2]
  /\ Returned(1) /\ pc[2] = "idle" =>
       [env |-> env, result |-> result[1]] = InitVariable(env0[1], fs, args[1])
  /\ Returned(2) =>
       [env |-> env, result |-> result[2]] = InitVariable(env0[2], fs, args[2])

\* the first call took the value from the file, the second found it in the
\* store, and both succeeded
C12_Witness ==
  /\ Succeeded(1)
  /\ Succeeded(2)
  /\ reads[1] = 1
  /\ reads[2] = 0
  /\ Direct0(2) = Str("s3cr3t\n")

\* both calls failed validation of the default
C12_WitnessFailed ==
  /\ FailedWith(1, "ConfigParseError")
  /\ FailedWith(2, "ConfigParseError")
  /\ Direct0(1) = Undefined
  /\ Direct0(2) = Str(DEFAULT_VALUE)

(***************************************************************************)
(* Two calls, of task 1 and of task 2, run one after the other from the    *)
(* store e: what the first and the second leave and how they settle.       *)
(***************************************************************************)
InOrder(e, a, b) ==
  LET first == InitVariable(e, fs, a)
      second == InitVariable(first.env, fs, b)
  IN [first |-> first.result, second |-> second.result, env |-> second.env]

\* neither name is the pointer variable of the other
Unrelated(m, n) == m # n /\ m # n \o "_FILE" /\ n # m \o "_FILE"

\* both calls have returned: they settled and left the store as the two
\* calls do when run one after the other, in either order
SameAsInEitherOrder ==
  LET ab == InOrder(env0[1], args[1], args[2])
      ba == InOrder(env0[1], args[2], args[1])
  IN /\ result[1] = ab.first
     /\ result[2] = ab.second
     /\ env = ab.env
     /\ result[1] = ba.second
     /\ result[2] = ba.first
     /\ env = ba.env

(***************************************************************************)
(* C14.  As stated: calls for two distinct names are independent; run      *)
(* concurrently in any interleaving, or one after the other in either      *)
(* order, each settles the same way and the same store is left.            *)
(***************************************************************************)
C14_DistinctNamesIndependent ==
  Returned(1) /\ Returned(2) /\ args[1].envVariable # args[2].envVariable =>
    SameAsInEitherOrder

(***************************************************************************)
(* C14, amended.  Calls for two distinct names, neither of which is the    *)
(* other's pointer variable `${name}_FILE`, are independent in that sense. *)
(***************************************************************************)
C14_UnrelatedNamesIndependent ==
  Returned(1) /\ Returned(2)
              /\ Unrelated(args[1].envVariable, args[2].envVariable) =>
    SameAsInEitherOrder

\* the call for OTHER ran while the call for TEST was suspended in its read
C14_Witness ==
  /\ Succeeded(1)
  /\ Succeeded(2)
  /\ args[1].envVariable = "TEST"
  /\ args[2].envVariable = "OTHER"
  /\ reads[1] = 1
  /\ env0[2] = env0[1]
  /\ EnvGet(env, "TEST") = Str("s3cr3t\n")
  /\ EnvGet(env, "OTHER") = Str(DEFAULT_VALUE)

(***************************************************************************)
(* C15.  As stated: a call that reads no file runs from start to end with  *)
(* no point at which another task can act on the store, so that it settles *)
(* as it does when run alone from the store it started with.               *)
(***************************************************************************)
C15_NoReadIsAtomic ==
  \A t \in Tasks :
    Returned(t) /\ reads[t] = 0 =>
      result[t] = InitVariable(env0[t], fs, args[t]).result

(***************************************************************************)
(* C15, amended.  A call suspends only at `await setFromFile(envVariable)`.*)
(* A call that finds a non-empty direct value never suspends: it runs from *)
(* start to end in one piece.  A call without one suspends there, also     *)
(* when `${name}_FILE` is unset or empty and no file is read.              *)
(***************************************************************************)
C15_Suspended ==
  \A t \in Tasks :
    /\ pc[t] \in {"reading", "awaitFile"} => NoDirect0(t)
    /\ pc[t] = "reading" => Truthy(Pointer0(t)) /\ reads[t] = 1
    /\ Returned(t) /\ Truthy(Direct0(t)) =>
         /\ reads[t] = 0
         /\ parseLog[t] = <<Direct0(t)>>
         /\ result[t] = InitVariable(env0[t], fs, args[t]).result

\* the step in which task t calls: to the end, or to the await
C15_CallStep ==
  \A t \in Tasks :
    pc[t] = "idle" /\ pc'[t] # "idle" =>
      /\ Truthy(EnvGet(env, args'[t].envVariable)) =>
           pc'[t] = "done" /\ reads'[t] = 0
      /\ ~Truthy(EnvGet(env, args'[t].envVariable)) =>
           /\ pc'[t] \in {"reading", "awaitFile"}
           /\ pc'[t] = "awaitFile" <=> reads'[t] = 0
           /\ env' = env

C15_SuspendsAtAwait == []C15_Suspended /\ [][C15_CallStep]_vars

\* a call that read no file was suspended while the other task stored a
\* value, and settled otherwise than it does alone
C15_Witness ==
  /\ Returned(1)
  /\ reads[1] = 0
  /\ NoDirect0(1)
  /\ NoPointer0(1)
  /\ result[1] # InitVariable(env0[1], fs, args[1]).result

(***************************************************************************)
(* C19.  The value a call hands to safeParse is the entry the store holds  *)
(* for the name at that moment if there is one, and defaultValue           *)
(* otherwise; it is undefined only if there is no entry and no default.    *)
(* This holds in every interleaving of two calls.                          *)
(***************************************************************************)
C19_ValidatesCurrentEntry ==
  [][\A t \in Tasks :
       pc[t] # "done" /\ pc'[t] = "done"
                      /\ result'[t].class # "ConfigFileReadError" =>
         /\ Len(parseLog'[t]) = 1
         /\ parseLog'[t][1] =
              IF args'[t].envVariable \in DOMAIN env'
                THEN Str(env'[args'[t].envVariable])
                ELSE args'[t].defaultValue
         /\ parseLog'[t][1] = Undefined =>
              /\ args'[t].envVariable \notin DOMAIN env'
              /\ args'[t].defaultValue = Undefined]_vars

\* a call validated the value the other task stored while it was suspended
C19_Witness ==
  /\ Returned(1)
  /\ Returned(2)
  /\ args[1].envVariable = args[2].envVariable
  /\ args[1].defaultValue = Undefined
  /\ NoDirect0(1)
  /\ NoPointer0(1)
  /\ args[2].defaultValue = Str(DEFAULT_VALUE)
  /\ parseLog[1] = <<Str(DEFAULT_VALUE)>>

(***************************************************************************)
(* C16.  REQUIRED, OPTIONAL and REQUIRED_NON_EMPTY: isOptional() is as the *)
(* name says; undefined is accepted exactly by the optional one; an input  *)
(* that is neither a string nor undefined is rejected; the empty string is *)
(* accepted exactly by those that are not NON_EMPTY; every non-empty       *)
(* string is accepted.                                                     *)
(***************************************************************************)
C16_BuiltInValidators ==
  \A t \in Tasks :
    pc[t] = "parsed" /\ args[t].validator \in BuiltIn =>
      LET v == args[t].validator
          val == parseLog[t][1]
          accepted == ~Truthy(result[t].error)
      IN /\ result[t].class = "safeParse"
         /\ result[t].isOptional <=> v = "OPTIONAL"
         /\ val = Undefined => (accepted <=> result[t].isOptional)
         /\ val.type \notin {"string", "undefined"} =>
              ~accepted /\ result[t].error.name = "Error"
         /\ val = Str("") => (accepted <=> v # "REQUIRED_NON_EMPTY")
         /\ val.type = "string" /\ val.val # "" => accepted

\* REQUIRED was handed the symbol of the test suite and rejected it
C16_Witness ==
  /\ pc[1] = "parsed"
  /\ args[1].validator = "REQUIRED"
  /\ parseLog[1] = <<NOT_A_STRING>>
  /\ result[1].error =
       NewError("Expected value to be a string, but got symbol")

\* REQUIRED_NON_EMPTY rejected the empty string
C16_WitnessEmpty ==
  /\ pc[1] = "parsed"
  /\ args[1].validator = "REQUIRED_NON_EMPTY"
  /\ parseLog[1] = <<Str("")>>
  /\ Truthy(result[1].error)

(***************************************************************************)
(* C17.  OPTIONAL_NON_EMPTY is provided: its isOptional() is true, it      *)
(* accepts undefined and every non-empty string and rejects the empty      *)
(* string.                                                                 *)
(***************************************************************************)
C17_OptionalNonEmptyProvided ==
  \A t \in Tasks :
    pc[t] = "parsed" /\ args[t].validator = "OPTIONAL_NON_EMPTY" =>
      /\ result[t].class = "safeParse"
      /\ result[t].isOptional
      /\ LET val == parseLog[t][1]
             accepted == ~Truthy(result[t].error)
         IN /\ val = Undefined => accepted
            /\ val.type = "string" /\ val.val # "" => accepted
            /\ val = Str("") => ~accepted

(***************************************************************************)
(* C21.  A call starts Deno.readTextFile at most once, and not at all when *)
(* the variable held a non-empty value at the call or `${name}_FILE` was   *)
(* unset or empty.                                                         *)
(***************************************************************************)
C21_AtMostOneRead ==
  \A t \in Tasks :
    /\ reads[t] <= 1
    /\ Truthy(Direct0(t)) \/ NoPointer0(t) => reads[t] = 0

\* a call that found a value and a readable file, and did not read it
C21_Witness ==
  /\ Returned(1)
  /\ Truthy(Direct0(1))
  /\ Readable0(1)
  /\ reads[1] = 0

\* a call that read the file
C21_WitnessRead == Returned(1) /\ reads[1] = 1 /\ Succeeded(1)

(***************************************************************************)
(* C22.  A call that started without a value, took its candidate from the *)
(* file or from the default and rejected it with a ConfigParseError leaves *)
(* the rejected candidate in the store.                                    *)
(***************************************************************************)
C22_NoRollback ==
  \A t \in Tasks :
    /\ FailedWith(t, "ConfigParseError")
    /\ NoDirect0(t)
    /\ parseLog[t][1] # Undefined
    => Current(t) = parseLog[t][1]

\* the rejected contents of the file stay in the store
C22_Witness ==
  /\ FailedWith(1, "ConfigParseError")
  /\ args[1].envVariable \notin DOMAIN env0[1]
  /\ Readable0(1)
  /\ parseLog[1] = <<Str("s3cr3t\n")>>
  /\ Current(1) = Str("s3cr3t\n")

\* the rejected default stays in the store
C22_WitnessDefault ==
  /\ FailedWith(1, "ConfigParseError")
  /\ args[1].envVariable \notin DOMAIN env0[1]
  /\ NoPointer0(1)
  /\ parseLog[1] = <<Str(DEFAULT_VALUE)>>
  /\ Current(1) = Str(DEFAULT_VALUE)

C23_WitnessRemoved ==
  /\ Returned(1)
  /\ Direct0(1) = Str("")
  /\ Readable0(1)
  /\ fs[Pointer0(1).val] = ""
  /\ reads[1] = 1
  /\ args[1].envVariable \notin DOMAIN env

(***************************************************************************)
(* C24.  In a sequence of sequential calls for one name, with the file     *)
(* rewritten and `${name}_FILE` changed between calls: once the store      *)
(* holds a non-empty value for the name, every step leaves it as it is and *)
(* no step starts a file read.                                             *)
(***************************************************************************)
C24_Step ==
  LET cur == EnvGet(env, "TEST")
  IN Truthy(cur) =>
       /\ EnvGet(env', "TEST") = cur
       /\ pc'[1] # "reading"
       /\ reads'[1] # reads[1] => reads'[1] = 0

C24_NonEmptyIsKept == [][C24_Step]_vars

\* a value an earlier call took from the file outlives a call that rejects
\* it, with a default, after the file was rewritten
C24_Witness ==
  /\ FailedWith(1, "ConfigParseError")
  /\ Direct0(1) = Str("s3cr3t\n")
  /\ Current(1) = Str("s3cr3t\n")
  /\ reads[1] = 0
  /\ args[1].defaultValue = Str(DEFAULT_VALUE)
  /\ EnvGet(env, "TEST_FILE") = Str(EXISTING_FILE)
  /\ fs[EXISTING_FILE] = ROTATED

(***************************************************************************)
(* C25.  From its start to its end, however it ends, a call for a name     *)
(* leaves every store key other than the name as it was.                   *)
(***************************************************************************)
C25_OnlyOwnKey ==
  \A t \in Tasks :
    pc[t] # "idle" =>
      EnvDelete(env, args[t].envVariable) = EnvDelete(env0[t], args[t].envVariable)

\* a successful call that changed its own entry, other entries being there
C25_Witness ==
  /\ Succeeded(1)
  /\ Current(1) # Direct0(1)
  /\ Truthy(Pointer0(1))
  /\ DOMAIN env \ {args[1].envVariable, PathVariable(args[1].envVariable)} # {}

\* a call rejected by the validator that changed its own entry
C25_WitnessParse ==
  /\ FailedWith(1, "ConfigParseError")
  /\ Current(1) # Direct0(1)
  /\ Truthy(Pointer0(1))

\* a call rejected because the file could not be read
C25_WitnessRead ==
  /\ FailedWith(1, "ConfigFileReadError")
  /\ DOMAIN env \ {args[1].envVariable, PathVariable(args[1].envVariable)} # {}

(***************************************************************************)
(* C26.  When the read settles with the contents, the call stores them     *)
(* under the name whatever the store holds by then: a value another task   *)
(* stored under the name during the read is overwritten, and the call      *)
(* goes on with the contents (a non-empty content is what it validates     *)
(* and leaves; after an empty one it falls back to its default).           *)
(***************************************************************************)
C26_ReadStep ==
  \A t \in Tasks :
    pc[t] = "reading" /\ pc'[t] = "awaitFile" =>
      EnvGet(env', args[t].envVariable) = Str(fs[configValuePath[t].val])

C26_AfterRace ==
  /\ Returned(1)
  /\ pc[2] = "stored"
  /\ args[2].envVariable = args[1].envVariable
  /\ result[1].class # "ConfigFileReadError"
  => LET content == fs[configValuePath[1].val]
     IN IF content # ""
          THEN parseLog[1] = <<Str(content)>> /\ Current(1) = Str(content)
          ELSE parseLog[1] = <<args[1].defaultValue>>
               /\ Current(1) = args[1].defaultValue

C26_ReadOverwrites == []C26_AfterRace /\ [][C26_ReadStep]_vars

\* the value stored during the read is gone, the contents were accepted
C26_Witness ==
  /\ Succeeded(1)
  /\ pc[2] = "stored"
  /\ args[2].envVariable = args[1].envVariable
  /\ args[2].defaultValue = Str("value")
  /\ Current(1) = Str("s3cr3t\n")

(***************************************************************************)
(* C27.  Two calls for one name, the name and `${name}_FILE` unset, with   *)
(* two different non-empty defaults: both hand the same value to their     *)
(* validators, the store ends with that value, and it is the default of    *)
(* the call that first went past its await.                                *)
(***************************************************************************)
C27_Case ==
  /\ pc[1] # "idle"
  /\ pc[2] # "idle"
  /\ args[1].envVariable = args[2].envVariable
  /\ args[1].envVariable \notin DOMAIN env0[1]
  /\ PathVariable(args[1].envVariable) \notin DOMAIN env0[1]
  /\ Truthy(args[1].defaultValue)
  /\ Truthy(args[2].defaultValue)
  /\ args[1].defaultValue # args[2].defaultValue

C27_SameValue ==
  C27_Case /\ Returned(1) /\ Returned(2) =>
    /\ Len(parseLog[1]) = 1
    /\ parseLog[2] = parseLog[1]
    /\ Current(1) = parseLog[1][1]
    /\ Current(1) \in {args[1].defaultValue, args[2].defaultValue}

C27_DefaultStep ==
  \A t \in {1, 2} :
    C27_Case /\ pc[t] = "awaitFile" /\ pc'[t] = "done" =>
      IF args[t].envVariable \in DOMAIN env
        THEN EnvGet(env', args[t].envVariable) = EnvGet(env, args[t].envVariable)
        ELSE EnvGet(env', args[t].envVariable) = args[t].defaultValue

C27_FirstDefaultWins == []C27_SameValue /\ [][C27_DefaultStep]_vars

\* both calls were suspended together; the second to call went on first and
\* its default is what both validated
C27_Witness ==
  /\ C27_Case
  /\ Returned(1)
  /\ Returned(2)
  /\ env0[2] = env0[1]
  /\ parseLog[1] = <<args[2].defaultValue>>
  /\ Current(1) = args[2].defaultValue

====
